---- MODULE Spec2Model ----
(***************************************************************************)
(* Model of src/agent.py: the entrypoint coroutine of the voice agent, run *)
(* once per job (session), the context file latest_context.txt it reads,   *)
(* and the metrics handler it subscribes to the session.                   *)
(*                                                                         *)
(* Text is modelled as a sequence of one-character strings, so that        *)
(* str.strip() is computed, not assumed.                                   *)
(***************************************************************************)
EXTENDS Naturals, Sequences, FiniteSets

VARIABLES
    context_file,     \* latest_context.txt: whether it exists, and its content
    nWrites,          \* history: number of completed writes to the file
    lastWrite,        \* history: payload of the most recent completed write
    pc,               \* per session: position in entrypoint()
    raw_context,      \* per session: local raw_context
    initial_ctx,      \* per session: local initial_ctx (a ChatContext)
    seenWrites,       \* per session, history: nWrites when it read the file
    contentRead,      \* per session, history: lastWrite when it read the file
    built,            \* per session: lines 86-90 have run
    consults,         \* per session: number of os.path.exists() checks
    reads,            \* per session: number of open()/read() of the file
    readErr,          \* per session: read raised and was caught (line 77)
    connected,        \* per session: ctx.connect() returned
    connectFailed,    \* per session: ctx.connect() raised
    participant,      \* per session: identity returned by wait_for_participant
    subscribed,       \* per session: on_metrics_collected is registered
    chat_ctx,         \* per session: the Agent's chat context once started
    dialogue,         \* per session: number of dialogue messages in chat_ctx
    replies,          \* per session: generate_reply() calls issued
    handlerResult,    \* per session: outcome of the last on_metrics_collected
    usage_collector,  \* per session: events usage_collector has collected
    emitted           \* per session: metrics events emitted to the handler

vars == <<context_file, nWrites, lastWrite, pc, raw_context, initial_ctx,
          seenWrites, contentRead, built, consults, reads, readErr, connected,
          connectFailed, participant, subscribed, chat_ctx, dialogue, replies,
          handlerResult, usage_collector, emitted>>

-----------------------------------------------------------------------------
(* Bounds of the model *)

MaxWrites == 2      \* external writes to the context file
MaxTurns == 1       \* human turns processed, over all sessions
MaxEvents == 1      \* metrics events emitted, over all sessions

Sessions == {"s1", "s2"}
Participants == {"alice"}

NoFile == [exists |-> FALSE, content |-> <<>>]
File(p) == [exists |-> TRUE, content |-> p]
NoOne == "NoOne"

(* The payloads an external writer may put in the file: plain text, text   *)
(* with surrounding and interior whitespace, and whitespace only.          *)
Payloads ==
    { <<"a">>,
      <<" ", "b", " ", "c", "\n">>,
      <<" ", "\n">> }

-----------------------------------------------------------------------------
(* Pure functions *)

IsSpace(c) == c \in {" ", "\n", "\t"}

RECURSIVE LStrip(_)
LStrip(t) ==
    IF t = <<>> THEN <<>>
    ELSE IF IsSpace(Head(t)) THEN LStrip(Tail(t))
    ELSE t

RECURSIVE RStrip(_)
RStrip(t) ==
    IF t = <<>> THEN <<>>
    ELSE IF IsSpace(t[Len(t)]) THEN RStrip(SubSeq(t, 1, Len(t) - 1))
    ELSE t

(* str.strip(): surrounding whitespace removed, interior kept (line 75) *)
Strip(t) == RStrip(LStrip(t))

(* role given to the seed message (line 89) *)
SeedRole == "system"

Message(role, content) == [role |-> role, content |-> content]

(* variant: the seed is added as an assistant message *)
BuildAssistantSeed(raw) ==
    IF raw # <<>> THEN <<Message("assistant", raw)>> ELSE <<>>

(* lines 86-90: ChatContext(), plus one message when raw_context is truthy *)
Build(raw) ==
    IF raw # <<>> THEN <<Message(SeedRole, raw)>> ELSE <<>>

Active(s) == pc[s] \in {"greet", "done"}

(* variant: entrypoint suspends between session.start and generate_reply *)
ListeningFromStart(s) == pc[s] \in {"greet", "done"}

(* lines 112-121: the session's own tasks run only while entrypoint is     *)
(* suspended in an await.  At "greet" session.start has returned and line  *)
(* 121 follows with no suspension point, so they first get to run once     *)
(* generate_reply has been called and is awaited.                          *)
Listening(s) == pc[s] = "done"

RECURSIVE SumOver(_, _)
SumOver(f, S) ==
    IF S = {} THEN 0
    ELSE LET x == CHOOSE y \in S : TRUE IN f[x] + SumOver(f, S \ {x})

TotalDialogue == SumOver(dialogue, Sessions)
TotalEmitted == SumOver(emitted, Sessions)

-----------------------------------------------------------------------------
Init ==
    /\ context_file = NoFile
    /\ nWrites = 0
    /\ lastWrite = <<>>
    /\ pc = [s \in Sessions |-> "Created"]
    /\ seenWrites = [s \in Sessions |-> 0]
    /\ contentRead = [s \in Sessions |-> <<>>]
    /\ built = [s \in Sessions |-> FALSE]
    /\ raw_context = [s \in Sessions |-> <<>>]
    /\ initial_ctx = [s \in Sessions |-> <<>>]
    /\ consults = [s \in Sessions |-> 0]
    /\ reads = [s \in Sessions |-> 0]
    /\ readErr = [s \in Sessions |-> FALSE]
    /\ connected = [s \in Sessions |-> FALSE]
    /\ connectFailed = [s \in Sessions |-> FALSE]
    /\ participant = [s \in Sessions |-> NoOne]
    /\ subscribed = [s \in Sessions |-> FALSE]
    /\ chat_ctx = [s \in Sessions |-> <<>>]
    /\ dialogue = [s \in Sessions |-> 0]
    /\ replies = [s \in Sessions |-> 0]
    /\ handlerResult = [s \in Sessions |-> "none"]
    /\ usage_collector = [s \in Sessions |-> 0]
    /\ emitted = [s \in Sessions |-> 0]

sessionVars == <<pc, raw_context, initial_ctx, seenWrites, contentRead, built,
                 consults, reads, readErr, connected, connectFailed,
                 participant, subscribed, chat_ctx, dialogue, replies>>
metricVars == <<handlerResult, usage_collector, emitted>>

-----------------------------------------------------------------------------
(* The context source *)

(* A completed external write: the whole content of the file is replaced. *)
(* The writer is not part of agent.py; a write in progress is not modelled. *)
Write(p) ==
    /\ nWrites < MaxWrites
    /\ context_file' = File(p)
    /\ nWrites' = nWrites + 1
    /\ lastWrite' = p
    /\ UNCHANGED <<sessionVars, metricVars>>

-----------------------------------------------------------------------------
(* entrypoint(), one action per step *)

(* lines 66-67: the job is accepted and entrypoint(ctx) begins *)
AcceptJob(s) ==
    /\ pc[s] = "Created"
    /\ pc' = [pc EXCEPT ![s] = "load"]
    /\ UNCHANGED <<context_file, nWrites, lastWrite, raw_context, initial_ctx,
                   seenWrites, contentRead, built, consults, reads, readErr,
                   connected, connectFailed, participant, subscribed,
                   chat_ctx, dialogue, replies, metricVars>>

(* lines 70-72, 79-80: raw_context = ""; os.path.exists(context_file) *)
LoadExists(s) ==
    /\ pc[s] = "load"
    /\ consults' = [consults EXCEPT ![s] = @ + 1]
    /\ raw_context' = [raw_context EXCEPT ![s] = <<>>]
    /\ pc' = [pc EXCEPT ![s] =
                 IF context_file.exists THEN "open" ELSE "connect"]
    /\ UNCHANGED <<context_file, nWrites, lastWrite, initial_ctx, seenWrites,
                   contentRead, built, reads, readErr, connected,
                   connectFailed, participant, subscribed, chat_ctx, dialogue,
                   replies, metricVars>>

(* variant: no try/except around the read, the exception leaves entrypoint *)
LoadRead_NoCatch(s) ==
    /\ pc[s] = "open"
    /\ reads' = [reads EXCEPT ![s] = @ + 1]
    /\ seenWrites' = [seenWrites EXCEPT ![s] = nWrites]
    /\ contentRead' = [contentRead EXCEPT ![s] = lastWrite]
    /\ \E raises \in BOOLEAN :
        /\ readErr' = [readErr EXCEPT ![s] = raises]
        /\ raw_context' = [raw_context EXCEPT ![s] =
                          IF raises THEN @ ELSE Strip(context_file.content)]
        /\ pc' = [pc EXCEPT ![s] = IF raises THEN "Terminating" ELSE "connect"]
    /\ UNCHANGED <<context_file, nWrites, lastWrite, initial_ctx, built,
                   consults, connected, connectFailed, participant,
                   subscribed, chat_ctx, dialogue, replies, metricVars>>

(* variant: f.read() without .strip() *)
LoadRead_NoStrip(s) ==
    /\ pc[s] = "open"
    /\ reads' = [reads EXCEPT ![s] = @ + 1]
    /\ seenWrites' = [seenWrites EXCEPT ![s] = nWrites]
    /\ contentRead' = [contentRead EXCEPT ![s] = lastWrite]
    /\ \E raises \in BOOLEAN :
        /\ readErr' = [readErr EXCEPT ![s] = raises]
        /\ raw_context' = [raw_context EXCEPT ![s] =
                              IF raises THEN @ ELSE context_file.content]
    /\ pc' = [pc EXCEPT ![s] = "connect"]
    /\ UNCHANGED <<context_file, nWrites, lastWrite, initial_ctx, built,
                   consults, connected, connectFailed, participant,
                   subscribed, chat_ctx, dialogue, replies, metricVars>>

(* variant: read-and-consume, the file is emptied once it has been read *)
LoadRead_Consume(s) ==
    /\ pc[s] = "open"
    /\ reads' = [reads EXCEPT ![s] = @ + 1]
    /\ seenWrites' = [seenWrites EXCEPT ![s] = nWrites]
    /\ contentRead' = [contentRead EXCEPT ![s] = lastWrite]
    /\ \E raises \in BOOLEAN :
        /\ readErr' = [readErr EXCEPT ![s] = raises]
        /\ raw_context' = [raw_context EXCEPT ![s] =
                          IF raises THEN @ ELSE Strip(context_file.content)]
        /\ context_file' = IF raises THEN context_file ELSE File(<<>>)
    /\ pc' = [pc EXCEPT ![s] = "connect"]
    /\ UNCHANGED <<nWrites, lastWrite, initial_ctx, built, consults, connected,
                   connectFailed, participant, subscribed, chat_ctx, dialogue,
                   replies, metricVars>>

(* lines 73-78: open, read, strip; any Exception is caught and logged *)
LoadRead(s) ==
    /\ pc[s] = "open"
    /\ reads' = [reads EXCEPT ![s] = @ + 1]
    /\ seenWrites' = [seenWrites EXCEPT ![s] = nWrites]
    /\ contentRead' = [contentRead EXCEPT ![s] = lastWrite]
    /\ \E raises \in BOOLEAN :
        /\ readErr' = [readErr EXCEPT ![s] = raises]
        /\ raw_context' = [raw_context EXCEPT ![s] =
                          IF raises THEN @ ELSE Strip(context_file.content)]
    /\ pc' = [pc EXCEPT ![s] = "connect"]
    /\ UNCHANGED <<context_file, nWrites, lastWrite, initial_ctx, built,
                   consults, connected, connectFailed, participant,
                   subscribed, chat_ctx, dialogue, replies, metricVars>>

(* variant: the context is not built after connecting *)
Connect_SkipBuild(s) ==
    /\ pc[s] = "connect"
    /\ \E ok \in BOOLEAN :
        /\ connected' = [connected EXCEPT ![s] = ok]
        /\ connectFailed' = [connectFailed EXCEPT ![s] = ~ok]
        /\ pc' = [pc EXCEPT ![s] = IF ok THEN "wait" ELSE "Terminating"]
    /\ UNCHANGED <<context_file, nWrites, lastWrite, raw_context, initial_ctx,
                   seenWrites, contentRead, built, consults, reads, readErr,
                   participant, subscribed, chat_ctx, dialogue, replies,
                   metricVars>>

(* variant: a failed connect is caught and entrypoint goes on *)
Connect_Swallow(s) ==
    /\ pc[s] = "connect"
    /\ \E ok \in BOOLEAN :
        /\ connected' = [connected EXCEPT ![s] = ok]
        /\ connectFailed' = [connectFailed EXCEPT ![s] = ~ok]
        /\ pc' = [pc EXCEPT ![s] = "build"]
    /\ UNCHANGED <<context_file, nWrites, lastWrite, raw_context, initial_ctx,
                   seenWrites, contentRead, built, consults, reads, readErr,
                   participant, subscribed, chat_ctx, dialogue, replies,
                   metricVars>>

(* line 83: await ctx.connect(...); an exception leaves entrypoint *)
Connect(s) ==
    /\ pc[s] = "connect"
    /\ \E ok \in BOOLEAN :
        /\ connected' = [connected EXCEPT ![s] = ok]
        /\ connectFailed' = [connectFailed EXCEPT ![s] = ~ok]
        /\ pc' = [pc EXCEPT ![s] = IF ok THEN "build" ELSE "Terminating"]
    /\ UNCHANGED <<context_file, nWrites, lastWrite, raw_context, initial_ctx,
                   seenWrites, contentRead, built, consults, reads, readErr,
                   participant, subscribed, chat_ctx, dialogue, replies,
                   metricVars>>

(* variant: the file is consulted again when the context is built *)
BuildContext_Reload(s) ==
    /\ pc[s] = "build"
    /\ consults' = [consults EXCEPT ![s] = @ + 1]
    /\ raw_context' = [raw_context EXCEPT ![s] =
                          IF context_file.exists
                          THEN Strip(context_file.content) ELSE <<>>]
    /\ initial_ctx' = [initial_ctx EXCEPT ![s] = Build(raw_context'[s])]
    /\ built' = [built EXCEPT ![s] = TRUE]
    /\ pc' = [pc EXCEPT ![s] = "wait"]
    /\ UNCHANGED <<context_file, nWrites, lastWrite, seenWrites, contentRead,
                   reads, readErr, connected, connectFailed, participant,
                   subscribed, chat_ctx, dialogue, replies, metricVars>>

(* variant: one module-level ChatContext shared by every session *)
BuildContext_Shared(s) ==
    /\ pc[s] = "build"
    /\ initial_ctx' = [t \in Sessions |->
                          initial_ctx[t] \o Build(raw_context[s])]
    /\ built' = [built EXCEPT ![s] = TRUE]
    /\ pc' = [pc EXCEPT ![s] = "wait"]
    /\ UNCHANGED <<context_file, nWrites, lastWrite, raw_context, seenWrites,
                   contentRead, consults, reads, readErr, connected,
                   connectFailed, participant, subscribed, chat_ctx, dialogue,
                   replies, metricVars>>

(* lines 86-90 *)
BuildContext(s) ==
    /\ pc[s] = "build"
    /\ initial_ctx' = [initial_ctx EXCEPT ![s] = Build(raw_context[s])]
    /\ built' = [built EXCEPT ![s] = TRUE]
    /\ pc' = [pc EXCEPT ![s] = "wait"]
    /\ UNCHANGED <<context_file, nWrites, lastWrite, raw_context, seenWrites,
                   contentRead, consults, reads, readErr, connected,
                   connectFailed, participant, subscribed, chat_ctx, dialogue,
                   replies, metricVars>>

(* lines 93-94: await ctx.wait_for_participant() *)
WaitForParticipant(s) ==
    /\ pc[s] = "wait"
    /\ \E p \in Participants : participant' = [participant EXCEPT ![s] = p]
    /\ pc' = [pc EXCEPT ![s] = "session"]
    /\ UNCHANGED <<context_file, nWrites, lastWrite, raw_context, initial_ctx,
                   seenWrites, contentRead, built, consults, reads, readErr,
                   connected, connectFailed, subscribed, chat_ctx, dialogue,
                   replies, metricVars>>

(* lines 97-109: collector, handler, AgentSession, session.on(...) *)
CreateSession(s) ==
    /\ pc[s] = "session"
    /\ usage_collector' = [usage_collector EXCEPT ![s] = 0]
    /\ subscribed' = [subscribed EXCEPT ![s] = TRUE]
    /\ pc' = [pc EXCEPT ![s] = "start"]
    /\ UNCHANGED <<context_file, nWrites, lastWrite, raw_context, initial_ctx,
                   seenWrites, contentRead, built, consults, reads, readErr,
                   connected, connectFailed, participant, chat_ctx, dialogue,
                   replies, handlerResult, emitted>>

(* variant: the agent's context is seeded from the file as it is at start *)
StartSession_Reseed(s) ==
    /\ pc[s] = "start"
    /\ chat_ctx' = [chat_ctx EXCEPT ![s] =
                       IF context_file.exists
                       THEN Build(Strip(context_file.content)) ELSE <<>>]
    /\ pc' = [pc EXCEPT ![s] = "greet"]
    /\ UNCHANGED <<context_file, nWrites, lastWrite, raw_context, initial_ctx,
                   seenWrites, contentRead, built, consults, reads, readErr,
                   connected, connectFailed, participant, subscribed,
                   dialogue, replies, metricVars>>

(* lines 112-118: session.start(agent=Assistant(chat_ctx=initial_ctx)) *)
StartSession(s) ==
    /\ pc[s] = "start"
    /\ chat_ctx' = [chat_ctx EXCEPT ![s] = initial_ctx[s]]
    /\ pc' = [pc EXCEPT ![s] = "greet"]
    /\ UNCHANGED <<context_file, nWrites, lastWrite, raw_context, initial_ctx,
                   seenWrites, contentRead, built, consults, reads, readErr,
                   connected, connectFailed, participant, subscribed,
                   dialogue, replies, metricVars>>

(* variant: the opening reply replaces the agent's context by a fresh one *)
GenerateReply_FreshContext(s) ==
    /\ pc[s] = "greet"
    /\ replies' = [replies EXCEPT ![s] = @ + 1]
    /\ chat_ctx' = [chat_ctx EXCEPT ![s] = <<>>]
    /\ pc' = [pc EXCEPT ![s] = "done"]
    /\ UNCHANGED <<context_file, nWrites, lastWrite, raw_context, initial_ctx,
                   seenWrites, contentRead, built, consults, reads, readErr,
                   connected, connectFailed, participant, subscribed,
                   dialogue, metricVars>>

(* lines 121-124: session.generate_reply(...), the opening reply *)
GenerateReply(s) ==
    /\ pc[s] = "greet"
    /\ replies' = [replies EXCEPT ![s] = @ + 1]
    /\ pc' = [pc EXCEPT ![s] = "done"]
    /\ UNCHANGED <<context_file, nWrites, lastWrite, raw_context, initial_ctx,
                   seenWrites, contentRead, built, consults, reads, readErr,
                   connected, connectFailed, participant, subscribed,
                   chat_ctx, dialogue, metricVars>>

-----------------------------------------------------------------------------
(* The started session *)

(* A human utterance is processed by the started session: its transcript  *)
(* is appended to the agent's context as a user message.                  *)
UserTurn(s) ==
    /\ Listening(s)
    /\ TotalDialogue < MaxTurns
    /\ chat_ctx' = [chat_ctx EXCEPT ![s] = Append(@, Message("user", <<"u">>))]
    /\ dialogue' = [dialogue EXCEPT ![s] = @ + 1]
    /\ UNCHANGED <<context_file, nWrites, lastWrite, pc, raw_context,
                   initial_ctx, seenWrites, contentRead, built, consults,
                   reads, readErr, connected, connectFailed, participant,
                   subscribed, replies, metricVars>>

(* lines 99-101: on_metrics_collected(agent_metrics).  logFails and       *)
(* collectFails say whether metrics.log_metrics / usage_collector.collect *)
(* raise for this event; the handler has no try/except, so collect is     *)
(* skipped when log_metrics raises and either exception leaves the handler *)
on_metrics_collected(s, logFails, collectFails) ==
    /\ usage_collector' = [usage_collector EXCEPT ![s] =
                              IF logFails \/ collectFails THEN @ ELSE @ + 1]
    /\ handlerResult' = [handlerResult EXCEPT ![s] =
                            IF logFails \/ collectFails THEN "raised"
                            ELSE "returned"]

(* The started session emits "metrics_collected": the event goes to the   *)
(* handler registered with session.on (line 109), or to nobody.           *)
EmitMetrics(s) ==
    /\ Listening(s)
    /\ TotalEmitted < MaxEvents
    /\ emitted' = [emitted EXCEPT ![s] = @ + 1]
    /\ IF subscribed[s]
       THEN \E logFails \in BOOLEAN, collectFails \in BOOLEAN :
                on_metrics_collected(s, logFails, collectFails)
       ELSE UNCHANGED <<handlerResult, usage_collector>>
    /\ UNCHANGED <<context_file, nWrites, lastWrite, sessionVars>>

-----------------------------------------------------------------------------
entrypoint(s) ==
    \/ AcceptJob(s)
    \/ LoadExists(s)
    \/ LoadRead(s)
    \/ Connect(s)
    \/ BuildContext(s)
    \/ WaitForParticipant(s)
    \/ CreateSession(s)
    \/ StartSession(s)
    \/ GenerateReply(s)

Next ==
    \/ \E p \in Payloads : Write(p)
    \/ \E s \in Sessions : entrypoint(s)
    \/ \E s \in Sessions : UserTurn(s)
    \/ \E s \in Sessions : EmitMetrics(s)

Spec == Init /\ [][Next]_vars

-----------------------------------------------------------------------------
TypeOK ==
    /\ context_file \in {File(p) : p \in Payloads} \cup {NoFile}
    /\ nWrites <= MaxWrites
    /\ lastWrite \in Payloads \cup {<<>>}
    /\ \A s \in Sessions :
        /\ pc[s] \in {"Created", "load", "open", "connect", "build", "wait",
                      "session",
                      "start", "greet", "done", "Terminating"}
        /\ Len(initial_ctx[s]) <= 1

-----------------------------------------------------------------------------
(* Derived notions used by the properties *)

Loaded(s) == pc[s] \notin {"Created", "load", "open"}

(* the messages of the agent's context that precede the dialogue *)
SeedPart(s) == SubSeq(chat_ctx[s], 1, Len(chat_ctx[s]) - dialogue[s])

ReadOK(s) == reads[s] = 1 /\ ~readErr[s]

(* no seed: the file was absent, the read raised, or it trimmed to nothing *)
NoSeed(s) ==
    /\ Loaded(s)
    /\ \/ reads[s] = 0
       \/ readErr[s]
       \/ (ReadOK(s) /\ Strip(contentRead[s]) = <<>>)

Lifecycle(s) ==
    CASE pc[s] = "Created" -> "Created"
      [] pc[s] \in {"load", "open", "connect"} -> "Connecting"
      [] pc[s] \in {"build", "wait"} -> "AwaitingParticipant"
      [] pc[s] \in {"session", "start"} -> "ContextSeeded"
      [] pc[s] \in {"greet", "done"} -> "Active"
      [] OTHER -> "Terminating"

Rank(l) ==
    CASE l = "Created" -> 0
      [] l = "Connecting" -> 1
      [] l = "AwaitingParticipant" -> 2
      [] l = "ContextSeeded" -> 3
      [] l = "Active" -> 4
      [] OTHER -> 5

-----------------------------------------------------------------------------
(* C1: for every non-empty seed text S (the file's content, trimmed), the  *)
(* context handed to the agent holds, before any dialogue, exactly one     *)
(* message, of role system and content S; two sessions that build from the *)
(* same S build identical contexts.                                        *)
C1_SeedMessage ==
    /\ \A s \in Sessions :
        (Active(s) /\ ReadOK(s) /\ Strip(contentRead[s]) # <<>>) =>
            SeedPart(s) = <<Message("system", Strip(contentRead[s]))>>
    /\ \A s, t \in Sessions :
        (built[s] /\ built[t] /\ raw_context[s] = raw_context[t]) =>
            initial_ctx[s] = initial_ctx[t]

C1_Witness ==
    \A s \in Sessions :
        /\ pc[s] = "done"
        /\ ReadOK(s)
        /\ contentRead[s] = <<" ", "b", " ", "c", "\n">>
        /\ chat_ctx[s] = <<Message("system", <<"b", " ", "c">>)>>

(* C2: when the source yields no seed (file absent, read error, or empty   *)
(* trimmed content) the session is not ended by it: it can always take its *)
(* next step up to the opening reply, only a failed connect terminates it, *)
(* and its context holds no seed message.                                  *)
C2_NoSeedNotFatal ==
    \A s \in Sessions :
        NoSeed(s) =>
            /\ raw_context[s] = <<>>
            /\ pc[s] = "Terminating" => connectFailed[s]
            /\ pc[s] \notin {"done", "Terminating"} => ENABLED entrypoint(s)
            /\ built[s] => initial_ctx[s] = <<>>
            /\ Active(s) => SeedPart(s) = <<>>
            /\ pc[s] = "done" => replies[s] = 1

C2_Witness ==
    \E s, t \in Sessions :
        /\ pc[s] = "done" /\ replies[s] = 1 /\ chat_ctx[s] = <<>>
        /\ readErr[s] /\ contentRead[s] = <<"a">>
        /\ pc[t] = "done" /\ replies[t] = 1 /\ chat_ctx[t] = <<>>
        /\ ReadOK(t) /\ contentRead[t] = <<" ", "\n">>

(* C3: a session consults and reads the source at most once; once it has  *)
(* read, no step (in particular no later write) changes the text it read,  *)
(* the context built from it, or the seed part of the agent's context.     *)
C3_Step ==
    \A s \in Sessions :
        /\ consults'[s] <= 1 /\ reads'[s] <= 1
        /\ Loaded(s) =>
            /\ raw_context'[s] = raw_context[s]
            /\ reads'[s] = reads[s] /\ consults'[s] = consults[s]
        /\ built[s] => initial_ctx'[s] = initial_ctx[s]
        /\ Active(s) => SeedPart(s)' = SeedPart(s)
        /\ (pc[s] = "start" /\ Active(s)') =>
            SeedPart(s)' = Build(raw_context[s])

C3_ReadOnce == [][C3_Step]_vars

C3_Witness ==
    \E s, t \in Sessions :
        /\ nWrites = 2
        /\ Active(s) /\ ReadOK(s) /\ seenWrites[s] = 1
        /\ chat_ctx[s] = <<Message("system", <<"a">>)>>
        /\ Active(t) /\ ReadOK(t) /\ seenWrites[t] = 2
        /\ chat_ctx[t] = <<Message("system", <<"b", " ", "c">>)>>

(* C4 as stated: the source is consulted and the seeded context is built   *)
(* only after the transport has connected and a participant was observed.  *)
C4_SeedAfterParticipant ==
    \A s \in Sessions :
        (consults[s] > 0 \/ built[s]) =>
            (connected[s] /\ participant[s] # NoOne)

(* C4, amended: sessions move through Created, Connecting,                 *)
(* AwaitingParticipant, ContextSeeded, Active in that order; the source is *)
(* consulted exactly once, before the transport connects; the context is   *)
(* built after the transport connected and before a participant is        *)
(* observed; both precede the start of the turn loop.                      *)
C4_Inv ==
    \A s \in Sessions :
        /\ Lifecycle(s) = "Created" => consults[s] = 0
        /\ (connected[s] \/ connectFailed[s]) => consults[s] = 1
        /\ consults[s] <= 1
        /\ built[s] => connected[s]
        /\ participant[s] # NoOne => built[s]
        /\ Rank(Lifecycle(s)) \in {3, 4} <=> participant[s] # NoOne
        /\ Active(s) => (consults[s] = 1 /\ built[s] /\ connected[s])

C4_Step ==
    \A s \in Sessions :
        /\ consults'[s] # consults[s] =>
            (~connected[s] /\ participant[s] = NoOne /\ ~built[s])
        /\ built'[s] # built[s] => (connected[s] /\ participant[s] = NoOne)
        /\ \/ Lifecycle(s)' = Lifecycle(s)
           \/ Rank(Lifecycle(s)') = Rank(Lifecycle(s)) + 1
           \/ (Lifecycle(s) = "Connecting" /\ Lifecycle(s)' = "Terminating")

C4_Order == []C4_Inv /\ [][C4_Step]_vars

C4_Witness ==
    \E s \in Sessions :
        /\ Lifecycle(s) = "Active"
        /\ consults[s] = 1 /\ reads[s] = 1 /\ built[s]
        /\ participant[s] = "alice"

(* C5: the read of the source and the construction of the context are     *)
(* both complete before the first reply is requested and before the first *)
(* utterance is processed.                                                 *)
C5_SeedBeforeReply ==
    \A s \in Sessions :
        (replies[s] > 0 \/ dialogue[s] > 0) =>
            /\ Loaded(s) /\ consults[s] = 1
            /\ built[s]
            /\ initial_ctx[s] = Build(raw_context[s])
            /\ SeedPart(s) = initial_ctx[s]

C5_Witness ==
    \E s \in Sessions :
        /\ replies[s] = 1 /\ dialogue[s] = 1
        /\ ReadOK(s) /\ built[s]
        /\ SeedPart(s) = <<Message("system", <<"a">>)>>

(* C6 as stated: a read that follows writes W1..Wn returns exactly Wn. *)
C6_ReadReturnsPayload ==
    \A s \in Sessions :
        ReadOK(s) => raw_context[s] = contentRead[s]

(* C6, amended: a read that follows writes W1..Wn and does not raise       *)
(* returns Wn trimmed of surrounding whitespace, whatever W1..Wn-1 were;   *)
(* the seed of a session is the trimmed payload of the last write          *)
(* completed before that session's read.                                   *)
C6_LastWriteWinsTrimmed ==
    \A s \in Sessions :
        ReadOK(s) =>
            /\ seenWrites[s] \in 1..nWrites
            /\ raw_context[s] = Strip(contentRead[s])
            /\ seenWrites[s] = nWrites => contentRead[s] = lastWrite
            /\ built[s] => initial_ctx[s] = Build(Strip(contentRead[s]))

C6_Witness ==
    \E s \in Sessions :
        /\ ReadOK(s) /\ seenWrites[s] = 2
        /\ lastWrite = <<" ", "b", " ", "c", "\n">>
        /\ raw_context[s] = <<"b", " ", "c">>
        /\ built[s]

(* C8: a session whose transport connection failed is in Terminating; it  *)
(* has not built a context, waited for a participant, created or started   *)
(* a session, or requested a reply.                                        *)
C8_ConnectFailureFatal ==
    \A s \in Sessions :
        connectFailed[s] =>
            /\ pc[s] = "Terminating"
            /\ ~connected[s] /\ ~built[s]
            /\ participant[s] = NoOne
            /\ ~subscribed[s]
            /\ chat_ctx[s] = <<>> /\ dialogue[s] = 0
            /\ replies[s] = 0 /\ emitted[s] = 0

C8_Witness ==
    \E s, t \in Sessions :
        /\ connectFailed[s] /\ pc[s] = "Terminating" /\ ReadOK(s)
        /\ pc[t] = "done" /\ replies[t] = 1

(* C9: the metrics handler never raises to its emitter, whatever fails     *)
(* inside it.                                                              *)
C9_HandlerNeverRaises ==
    \A s \in Sessions : handlerResult[s] # "raised"

IsAppend(old, new) ==
    \/ new = old
    \/ /\ Len(new) = Len(old) + 1
       /\ SubSeq(new, 1, Len(old)) = old

(* C17: in every step the context of a session is unchanged or has one    *)
(* message added at its end; the seed message, when there is one, is the   *)
(* first message of the agent's context for as long as the session runs.   *)
C17_SeedFirst ==
    \A s \in Sessions :
        (Active(s) /\ raw_context[s] # <<>>) =>
            /\ Len(chat_ctx[s]) = 1 + dialogue[s]
            /\ chat_ctx[s][1] = Message("system", raw_context[s])

C17_Step ==
    \A s \in Sessions :
        /\ IsAppend(initial_ctx[s], initial_ctx'[s])
        /\ IsAppend(chat_ctx[s], chat_ctx'[s])

C17_AppendOnly == []C17_SeedFirst /\ [][C17_Step]_vars

C17_Witness ==
    \E s \in Sessions :
        /\ pc[s] = "done"
        /\ nWrites > seenWrites[s]
        /\ chat_ctx[s] = <<Message("system", <<"b", " ", "c">>),
                           Message("user", <<"u">>)>>

(* everything a session holds: the locals of its entrypoint() call, its   *)
(* agent's context and its usage collector                                 *)
SessionState(s) ==
    <<pc[s], raw_context[s], initial_ctx[s], participant[s], subscribed[s],
      chat_ctx[s], dialogue[s], replies[s], usage_collector[s]>>

(* C18: a step that changes the context, or anything else, of one session *)
(* leaves the context and the state of every other session unchanged; an   *)
(* append by one session never shows in another session's context.         *)
C18_Step ==
    \A s, t \in Sessions :
        (s # t /\ SessionState(s)' # SessionState(s)) =>
            /\ SessionState(t)' = SessionState(t)
            /\ chat_ctx'[t] = chat_ctx[t]
            /\ initial_ctx'[t] = initial_ctx[t]

C18_OwnContext == [][C18_Step]_vars

C18_Witness ==
    \E s, t \in Sessions :
        /\ pc[s] = "done" /\ pc[t] = "done"
        /\ chat_ctx[s] = <<Message("system", <<"a">>),
                           Message("user", <<"u">>)>>
        /\ chat_ctx[t] = <<Message("system", <<"b", " ", "c">>)>>

(* C19: no step of a session changes the context source, which keeps the  *)
(* payload of the last write until the next write; two sessions that read  *)
(* with no write between their reads get the same text and build the same  *)
(* context.                                                                *)
C19_Inv ==
    /\ nWrites > 0 => context_file = File(lastWrite)
    /\ nWrites = 0 => context_file = NoFile
    /\ \A s, t \in Sessions :
        (ReadOK(s) /\ ReadOK(t) /\ seenWrites[s] = seenWrites[t]) =>
            /\ raw_context[s] = raw_context[t]
            /\ (built[s] /\ built[t]) => initial_ctx[s] = initial_ctx[t]

C19_Step == context_file' # context_file => nWrites' = nWrites + 1

C19_ReadKeepsSeed == []C19_Inv /\ [][C19_Step]_vars

C19_Witness ==
    \E s, t \in Sessions :
        /\ s # t
        /\ nWrites = 1
        /\ ReadOK(s) /\ ReadOK(t)
        /\ pc[s] = "done" /\ pc[t] = "done"
        /\ chat_ctx[s] = <<Message("system", <<"b", " ", "c">>)>>
        /\ chat_ctx[t] = chat_ctx[s]
        /\ context_file = File(<<" ", "b", " ", "c", "\n">>)

(* C20: the handler is registered before any metrics event is emitted,    *)
(* and every emitted event has been added to the usage collector exactly   *)
(* once.                                                                   *)
C20_EveryEventCollected ==
    \A s \in Sessions :
        /\ emitted[s] > 0 => subscribed[s]
        /\ Active(s) => subscribed[s]
        /\ usage_collector[s] = emitted[s]

====
